---- MODULE Spec2Model ----
(***************************************************************************)
(* A model of push-wallet-marks (src/src/main.rs): one process that        *)
(* validates --repo, copies it into a temporary directory, and stages the  *)
(* working-tree-modified mark files of the copy.                           *)
(*                                                                         *)
(* The file system holds two directories, the original working copy        *)
(* ("orig", the --repo argument) and the temporary one ("tmp").  A         *)
(* directory that is a repository carries the status entries a status      *)
(* query reports for it and the set of paths whose blob has been written   *)
(* to its object database.  git2's Index::add_path writes the blob and     *)
(* updates the index object in memory; the on-disk index changes only on   *)
(* Index::write, which main.rs never calls.                                *)
(***************************************************************************)
EXTENDS Integers, Sequences, FiniteSets, TLC

(* ---------------------------------------------------------------------- *)
(* Bounds of the model.                                                    *)
(* ---------------------------------------------------------------------- *)
MaxStatuses == 3
MaxAutoFiles == 2
MaxRuns == 2

(* ---------------------------------------------------------------------- *)
(* Values.                                                                 *)
(* ---------------------------------------------------------------------- *)

\* Option<T>: None is the empty sequence, Some(x) the one-element sequence.
None == <<>>
Some(x) == <<x>>

\* A path whose bytes are not valid UTF-8 (Path::to_str and
\* StatusEntry::path give None for it).
NonUtf8 == "\\xFF"

\* Paths a status entry may carry (file names in the working tree).
EntryPaths == {"mark1", "mark2", "other.txt", NonUtf8}

\* Paths --auto-files may carry.
AutoPaths == {"", "mark1", "mark2", NonUtf8}

\* git2::Status is a set of flags; the values a status query is given here.
WT_MODIFIED == {"WT_MODIFIED"}
StatusValues ==
    { WT_MODIFIED,
      {"WT_DELETED"},
      {"INDEX_NEW"},
      {"INDEX_MODIFIED", "WT_MODIFIED"},
      {"WT_MODIFIED", "WT_RENAMED"} }

\* git2::StatusEntry: the raw path and the status flags.
StatusEntries == [path_bytes : EntryPaths, status : StatusValues]

Range(s) == {s[k] : k \in 1..Len(s)}

SeqsUpTo(S, n) == UNION {[1..k -> S] : k \in 0..n}

\* The byte order of the entry paths.
PathOrder == <<"mark1", "mark2", "other.txt", NonUtf8>>

PathRank(p) == CHOOSE k \in 1..Len(PathOrder) : PathOrder[k] = p

\* A status list names each changed path once, in the order of the paths (it
\* is collected from the path-ordered diffs of HEAD, index and working tree).
InPathOrder(s) ==
    \A a, b \in 1..Len(s) :
        a < b => PathRank(s[a].path_bytes) < PathRank(s[b].path_bytes)

StatusLists == {s \in SeqsUpTo(StatusEntries, MaxStatuses) : InPathOrder(s)}

AutoFileLists == SeqsUpTo(AutoPaths, MaxAutoFiles)

Dirs == {"orig", "tmp"}

\* A directory that does not exist.
Absent == [exists |-> FALSE, is_repo |-> FALSE, entries |-> <<>>, blobs |-> {}]

\* A working copy whose status query reports `entries`.
WorkingCopy(entries) ==
    [exists |-> TRUE, is_repo |-> TRUE, entries |-> entries, blobs |-> {}]

\* A directory that exists and is no repository.
PlainDir == [exists |-> TRUE, is_repo |-> FALSE, entries |-> <<>>, blobs |-> {}]

(* ---------------------------------------------------------------------- *)
(* Pure functions of main.rs.                                              *)
(* ---------------------------------------------------------------------- *)

\* Path::to_str / the str a PathBuf converts to.
ToStr(p) == IF p = NonUtf8 THEN None ELSE Some(p)

\* StatusEntry::path(): None unless the path is valid UTF-8.
EntryPath(e) == ToStr(e.path_bytes)

\* Option::unwrap_or.
UnwrapOr(o, d) == IF o = None THEN d ELSE o[1]

\* Status::intersects.
Intersects(s, t) == s \cap t # {}

INDEX_STATUS ==
    {"INDEX_NEW", "INDEX_DELETED", "INDEX_MODIFIED", "INDEX_RENAMED", "INDEX_TYPECHANGE"}

\* The mask with INDEX_NEW left out.
is_index_status_without_new(s) == Intersects(s, INDEX_STATUS \ {"INDEX_NEW"})

is_index_status(s) == Intersects(s, INDEX_STATUS)

\* The for loop of is_index_empty, from entry k on.
RECURSIVE IndexEmptyFrom(_, _)
IndexEmptyFrom(statuses, k) ==
    IF k > Len(statuses) THEN TRUE
    ELSE IF is_index_status(statuses[k].status) THEN FALSE
    ELSE IndexEmptyFrom(statuses, k + 1)

is_index_empty(statuses) == IndexEmptyFrom(statuses, 1)

\* The HashSet<String> of the allow-list: the paths that convert to a str.
PathStrings(paths) ==
    {ToStr(p)[1] : p \in {q \in Range(paths) : ToStr(q) # None}}

KeepsEntry(path_strings, e) == UnwrapOr(EntryPath(e), "") \in path_strings

filter_statuses_by_path(statuses, paths) ==
    LET path_strings == PathStrings(paths)
        Keep(e) == KeepsEntry(path_strings, e)
    IN SelectSeq(statuses, Keep)

\* StatusEntryBetter::from_status_entry.
from_status_entry(e) ==
    IF EntryPath(e) = None THEN None
    ELSE Some([path |-> EntryPath(e)[1], status |-> e.status])

\* collect::<Option<Vec<_>>>() over the mapped entries.
CollectBetter(entries) ==
    IF \E k \in 1..Len(entries) : from_status_entry(entries[k]) = None THEN None
    ELSE Some([k \in 1..Len(entries) |-> from_status_entry(entries[k])[1]])

\* Status::contains in place of ==.
ContainsExpectedStatus(s) == WT_MODIFIED \subseteq s

\* line 185: the status a mark file must have, compared with ==.
IsExpectedStatus(s) == s = WT_MODIFIED

(* ---------------------------------------------------------------------- *)
(* State.                                                                  *)
(* ---------------------------------------------------------------------- *)
VARIABLES
    fs,                 \* the file system: Dirs -> directory
    repo0,              \* the original working copy as it was at start
    auto_files,         \* cli.auto_files
    pc,                 \* position of the process
    repo_path,          \* the directory push_wallet_marks has opened
    statuses,           \* the status snapshot
    index,              \* the paths added to the in-memory index
    mark_file_statuses, \* the filtered (then converted) entries
    next,               \* position of the staging loop
    result,             \* "running", "Ok" or "Err": what main returns
    msg,                \* the last message: what the run reported
    temp_made,          \* a temporary directory was created in this run
    run,                \* number of the run of the program
    log                 \* what the earlier runs reported and added

vars == <<fs, repo0, auto_files, pc, repo_path, statuses, index,
          mark_file_statuses, next, result, msg, temp_made, run, log>>

Init ==
    /\ \E orig \in {Absent, PlainDir} \cup {WorkingCopy(s) : s \in StatusLists} :
         /\ fs = [d \in Dirs |-> IF d = "orig" THEN orig ELSE Absent]
         /\ repo0 = orig
    /\ auto_files \in AutoFileLists
    /\ pc = "main"
    /\ repo_path = "none"
    /\ statuses = <<>>
    /\ index = {}
    /\ mark_file_statuses = <<>>
    /\ next = 1
    /\ result = "running"
    /\ msg = "none"
    /\ temp_made = FALSE
    /\ run = 1
    /\ log = <<>>

(* ---------------------------------------------------------------------- *)
(* main and copy_repository.                                               *)
(* ---------------------------------------------------------------------- *)

\* Repository::open(path) succeeds only on a repository.
is_repo_path(path) == fs[path].exists /\ fs[path].is_repo

\* The stager run on the --repo directory itself.
StagerTargetOriginal == "orig"

\* The directory main hands to push_wallet_marks: temp_dir.path().
StagerTarget == "tmp"

\* A TempDir that is kept (TempDir::into_path) when it goes out of scope.
KeepTempDir(f) == f

\* Dropping a tempfile::TempDir removes the directory.
DropTempDir(f) == [f EXCEPT !["tmp"] = Absent]

Return(r, m) ==
    /\ result' = r
    /\ msg' = m

\* main, lines 216-223: the --repo path is validated first.
MainValidate ==
    /\ pc = "main"
    /\ IF is_repo_path("orig")
         THEN /\ pc' = "tempdir"
              /\ UNCHANGED <<result, msg>>
         ELSE /\ pc' = "exit"
              /\ Return("Err", "not a valid repository")
    /\ UNCHANGED <<fs, repo0, auto_files, repo_path, statuses, index,
                   mark_file_statuses, next, temp_made, run, log>>

\* copy_repository, lines 75-81: tempdir().
CreateTempDir ==
    /\ pc = "tempdir"
    /\ \/ /\ fs' = [fs EXCEPT !["tmp"] = PlainDir]
          /\ temp_made' = TRUE
          /\ pc' = "copy"
          /\ UNCHANGED <<result, msg>>
       \/ /\ pc' = "exit"
          /\ Return("Err", "Could not create a temporary directory")
          /\ UNCHANGED <<fs, temp_made>>
    /\ UNCHANGED <<repo0, auto_files, repo_path, statuses, index,
                   mark_file_statuses, next, run, log>>

\* copy_repository, lines 82-94: copy_content; on failure the `?` returns and
\* the TempDir is dropped.
CopyContent ==
    /\ pc = "copy"
    /\ \/ /\ fs' = [fs EXCEPT !["tmp"] = fs["orig"]]
          /\ pc' = "open"
          /\ UNCHANGED <<result, msg>>
       \/ /\ fs' = DropTempDir(fs)
          /\ pc' = "exit"
          /\ Return("Err", "Could not copy the repository")
    /\ UNCHANGED <<repo0, auto_files, repo_path, statuses, index,
                   mark_file_statuses, next, temp_made, run, log>>

\* main, lines 226-228: push_wallet_marks has returned; main returns its
\* result and temp_dir goes out of scope.
MainReturn ==
    /\ pc = "return"
    /\ fs' = DropTempDir(fs)
    /\ pc' = "exit"
    /\ UNCHANGED <<repo0, auto_files, repo_path, statuses, index,
                   mark_file_statuses, next, result, msg, temp_made, run, log>>

(* ---------------------------------------------------------------------- *)
(* push_wallet_marks.                                                      *)
(* ---------------------------------------------------------------------- *)

\* lines 151-157: Repository::open(repo_path).
OpenRepository ==
    /\ pc = "open"
    /\ \/ /\ is_repo_path(StagerTarget)
          /\ repo_path' = StagerTarget
          /\ pc' = "statuses"
          /\ UNCHANGED <<result, msg>>
       \/ /\ pc' = "return"
          /\ Return("Err", "Failed to open a repository")
          /\ UNCHANGED repo_path
    /\ UNCHANGED <<fs, repo0, auto_files, statuses, index,
                   mark_file_statuses, next, temp_made, run, log>>

\* lines 159-161: repo.statuses(None), a snapshot of the opened repository.
FetchStatuses ==
    /\ pc = "statuses"
    /\ \/ /\ statuses' = fs[repo_path].entries
          /\ pc' = "index"
          /\ UNCHANGED <<result, msg>>
       \/ /\ pc' = "return"
          /\ Return("Err", "Could not fetch file statuses")
          /\ UNCHANGED statuses
    /\ UNCHANGED <<fs, repo0, auto_files, repo_path, index,
                   mark_file_statuses, next, temp_made, run, log>>

\* lines 163-165: repo.index().
FetchIndex ==
    /\ pc = "index"
    /\ \/ /\ index' = {}
          /\ pc' = "check"
          /\ UNCHANGED <<result, msg>>
       \/ /\ pc' = "return"
          /\ Return("Err", "Could not fetch the index")
          /\ UNCHANGED index
    /\ UNCHANGED <<fs, repo0, auto_files, repo_path, statuses,
                   mark_file_statuses, next, temp_made, run, log>>

\* The dirty-index abort reported as an error.
CheckIndexFails ==
    /\ pc = "check"
    /\ IF is_index_empty(statuses)
         THEN /\ pc' = "filter"
              /\ UNCHANGED <<result, msg>>
         ELSE /\ pc' = "return"
              /\ Return("Err", "The index is not empty")
    /\ UNCHANGED <<fs, repo0, auto_files, repo_path, statuses, index,
                   mark_file_statuses, next, temp_made, run, log>>

\* lines 167-170: a non-empty index aborts the push.
CheckIndex ==
    /\ pc = "check"
    /\ IF is_index_empty(statuses)
         THEN /\ pc' = "filter"
              /\ UNCHANGED <<result, msg>>
         ELSE /\ pc' = "return"
              /\ Return("Ok", "The index is not empty")
    /\ UNCHANGED <<fs, repo0, auto_files, repo_path, statuses, index,
                   mark_file_statuses, next, temp_made, run, log>>

\* line 172.
Filter ==
    /\ pc = "filter"
    /\ mark_file_statuses' = filter_statuses_by_path(statuses, auto_files)
    /\ pc' = "convert"
    /\ UNCHANGED <<fs, repo0, auto_files, repo_path, statuses, index,
                   next, result, msg, temp_made, run, log>>

\* lines 173-177: every filtered entry becomes a StatusEntryBetter, or the
\* run fails.
Convert ==
    /\ pc = "convert"
    /\ LET better == CollectBetter(mark_file_statuses)
       IN IF better = None
            THEN /\ pc' = "return"
                 /\ Return("Err", "Could not convert all mark files to a path")
                 /\ UNCHANGED mark_file_statuses
            ELSE /\ mark_file_statuses' = better[1]
                 /\ pc' = "empty"
                 /\ UNCHANGED <<result, msg>>
    /\ UNCHANGED <<fs, repo0, auto_files, repo_path, statuses, index,
                   next, temp_made, run, log>>

\* lines 179-182.
CheckEmpty ==
    /\ pc = "empty"
    /\ IF mark_file_statuses = <<>>
         THEN /\ pc' = "return"
              /\ Return("Ok", "No mark files to push")
         ELSE /\ pc' = "stage"
              /\ UNCHANGED <<result, msg>>
    /\ next' = 1
    /\ UNCHANGED <<fs, repo0, auto_files, repo_path, statuses, index,
                   mark_file_statuses, temp_made, run, log>>

\* Index::add_path on the repository at `dir`: the blob is written to the
\* repository's object database and the in-memory index takes the path.
AddPath(dir, path) ==
    /\ fs' = [fs EXCEPT ![dir].blobs = @ \cup {path}]
    /\ index' = index \cup {path}

\* The staging loop skipping a mark file of an unexpected status.
StageNextSkips ==
    /\ pc = "stage"
    /\ next <= Len(mark_file_statuses)
    /\ LET mark_file_status == mark_file_statuses[next]
       IN IF IsExpectedStatus(mark_file_status.status)
            THEN \/ /\ AddPath(repo_path, mark_file_status.path)
                    /\ next' = next + 1
                    /\ UNCHANGED <<pc, result, msg>>
                 \/ /\ pc' = "return"
                    /\ Return("Err", "Could not add to the index")
                    /\ UNCHANGED <<fs, index, next>>
            ELSE /\ next' = next + 1
                 /\ UNCHANGED <<fs, index, pc, result, msg>>
    /\ UNCHANGED <<repo0, auto_files, repo_path, statuses,
                   mark_file_statuses, temp_made, run, log>>

\* lines 184-202: one iteration of the staging loop.
StageNext ==
    /\ pc = "stage"
    /\ next <= Len(mark_file_statuses)
    /\ LET mark_file_status == mark_file_statuses[next]
       IN IF IsExpectedStatus(mark_file_status.status)
            THEN \/ /\ AddPath(repo_path, mark_file_status.path)
                    /\ next' = next + 1
                    /\ UNCHANGED <<pc, result, msg>>
                 \/ /\ pc' = "return"
                    /\ Return("Err", "Could not add to the index")
                    /\ UNCHANGED <<fs, index, next>>
            ELSE /\ pc' = "return"
                 /\ Return("Err", "unexpected status")
                 /\ UNCHANGED <<fs, index, next>>
    /\ UNCHANGED <<repo0, auto_files, repo_path, statuses,
                   mark_file_statuses, temp_made, run, log>>

\* lines 208-212: the loop is over; the entries are printed.
Report ==
    /\ pc = "stage"
    /\ next > Len(mark_file_statuses)
    /\ pc' = "return"
    /\ Return("Ok", "Hello, world!")
    /\ UNCHANGED <<fs, repo0, auto_files, repo_path, statuses, index,
                   mark_file_statuses, next, temp_made, run, log>>

\* The program is started again with the same arguments: a new process,
\* the same file system.
Rerun ==
    /\ pc = "exit"
    /\ run < MaxRuns
    /\ log' = Append(log, [result |-> result, msg |-> msg, index |-> index])
    /\ run' = run + 1
    /\ pc' = "main"
    /\ repo_path' = "none"
    /\ statuses' = <<>>
    /\ index' = {}
    /\ mark_file_statuses' = <<>>
    /\ next' = 1
    /\ result' = "running"
    /\ msg' = "none"
    /\ temp_made' = FALSE
    /\ UNCHANGED <<fs, repo0, auto_files>>

Next ==
    \/ MainValidate
    \/ CreateTempDir
    \/ CopyContent
    \/ OpenRepository
    \/ FetchStatuses
    \/ FetchIndex
    \/ CheckIndex
    \/ Filter
    \/ Convert
    \/ CheckEmpty
    \/ StageNext
    \/ Report
    \/ MainReturn

\* One run of the program.
Spec == Init /\ [][Next]_vars

\* One run; the process is scheduled until it exits.
FairSpec == Init /\ [][Next]_vars /\ WF_vars(Next)

\* The program run again and again on the same file system.
RepeatSpec == Init /\ [][Next \/ Rerun]_vars

(* ---------------------------------------------------------------------- *)
(* Vocabulary of the properties.                                           *)
(* ---------------------------------------------------------------------- *)

\* The messages of the three successful ends of push_wallet_marks.
AbortedDirtyIndex == "The index is not empty"
AbortedNoMarkFiles == "No mark files to push"
Staged == "Hello, world!"

\* The messages of a failed library call (the environment's doing).
LibraryFailures ==
    { "Could not create a temporary directory",
      "Could not copy the repository",
      "Failed to open a repository",
      "Could not fetch file statuses",
      "Could not fetch the index",
      "Could not add to the index" }

\* The messages of a failure the input decides.
InputFailures ==
    { "not a valid repository",
      "Could not convert all mark files to a path",
      "unexpected status" }

\* push_wallet_marks has its status snapshot and its index.
Fetched ==
    \/ pc \in {"check", "filter", "convert", "empty", "stage"}
    \/ /\ pc \in {"return", "exit"}
       /\ msg \notin { "not a valid repository",
                       "Could not create a temporary directory",
                       "Could not copy the repository",
                       "Failed to open a repository",
                       "Could not fetch file statuses",
                       "Could not fetch the index" }

\* push_wallet_marks has returned (or main has, after it).
Ended == pc \in {"return", "exit"}

\* Some entry of S has a flag of the staging index.
HasStagedChanges(S) ==
    \E k \in 1..Len(S) :
        S[k].status \cap {"INDEX_NEW", "INDEX_DELETED", "INDEX_MODIFIED",
                          "INDEX_RENAMED", "INDEX_TYPECHANGE"} # {}

\* The entry has a path string and it is a member of the allow-list A.
InAllowList(e, A) ==
    /\ e.path_bytes # NonUtf8
    /\ \E k \in 1..Len(A) : A[k] = e.path_bytes

\* The entries of S whose path string is a member of A, in the order of S.
AllowListed(S, A) ==
    LET Keep(e) == InAllowList(e, A) IN SelectSeq(S, Keep)

PathsOf(S) == {S[k].path_bytes : k \in 1..Len(S)}

\* The paths of the first n entries of the filtered list the run works on.
StagedPrefix(n) == {mark_file_statuses[k].path : k \in 1..n}

\* The blobs add_path has written, in any directory.
BlobsWritten == UNION {fs[d].blobs : d \in Dirs}

(* ---------------------------------------------------------------------- *)
(* C1                                                                      *)
(* ---------------------------------------------------------------------- *)

\* C1: in every reachable state, every path that has been added to the index
\* is a member of auto_files and belongs to an entry of the status snapshot
\* whose status is exactly WT_MODIFIED.
C1_OnlyAllowedModifiedStaged ==
    \A p \in index \cup BlobsWritten :
        /\ p \in Range(auto_files)
        /\ \E k \in 1..Len(statuses) :
              /\ statuses[k].path_bytes = p
              /\ statuses[k].status = {"WT_MODIFIED"}

\* A path has been staged while a changed file outside the allow-list is in
\* the snapshot.
C1_Witness ==
    /\ index # {}
    /\ \E k \in 1..Len(statuses) : statuses[k].path_bytes \notin Range(auto_files)

(* ---------------------------------------------------------------------- *)
(* C2                                                                      *)
(* ---------------------------------------------------------------------- *)

\* C2: once the status query and the index fetch have succeeded, the run ends
\* with the dirty-index abort iff some entry of the status set (the original's)
\* has an INDEX_* flag; then nothing is staged and the result is Ok.  An empty
\* status set is clean.
C2_DirtyIndexAbort ==
    (Ended /\ Fetched) =>
        /\ statuses = repo0.entries
        /\ (msg = AbortedDirtyIndex) <=> HasStagedChanges(statuses)
        /\ (msg = AbortedDirtyIndex) =>
              (result = "Ok" /\ index = {} /\ BlobsWritten = {})
        /\ (statuses = <<>>) => (msg # AbortedDirtyIndex)

\* The run aborted on a dirty index although an allow-listed entry has an
\* unexpected status and an entry matched by "" has no path string; the dirty
\* entry is no mark file and carries a working-tree flag too.
C2_Witness ==
    /\ pc = "exit"
    /\ msg = AbortedDirtyIndex
    /\ \E k \in 1..Len(statuses) :
          /\ statuses[k].path_bytes = "other.txt"
          /\ statuses[k].status = {"INDEX_MODIFIED", "WT_MODIFIED"}
    /\ \E k \in 1..Len(statuses) :
          /\ statuses[k].path_bytes \in {"mark1", NonUtf8}
          /\ statuses[k].status = {"WT_DELETED"}
          /\ Range(auto_files) = {"mark1", ""}

(* ---------------------------------------------------------------------- *)
(* C3                                                                      *)
(* ---------------------------------------------------------------------- *)

\* The premise of C3: the index is clean, some entry of the status set has
\* its path in the allow-list, and every such entry is exactly WT_MODIFIED.
C3_Premise ==
    /\ ~HasStagedChanges(statuses)
    /\ AllowListed(statuses, auto_files) # <<>>
    /\ \A e \in Range(AllowListed(statuses, auto_files)) :
          e.status = {"WT_MODIFIED"}

\* C3: with a clean index and a non-empty set of allow-listed entries, all of
\* them exactly WT_MODIFIED, the run (none of whose library calls fails) ends
\* Staged with result Ok, and the staged paths are exactly the paths of the
\* allow-listed entries.
C3_StagesExactlyAllowListed ==
    (pc = "exit" /\ Fetched /\ msg \notin LibraryFailures /\ C3_Premise) =>
        /\ msg = Staged
        /\ result = "Ok"
        /\ index = PathsOf(AllowListed(statuses, auto_files))

(* ---------------------------------------------------------------------- *)
(* C4                                                                      *)
(* ---------------------------------------------------------------------- *)

\* C4: the original working copy is never changed: in every state it is as
\* it was at the start; whatever is staged is staged in the temporary copy;
\* and an invalid --repo fails before any temporary directory exists.
C4_OriginalUntouched ==
    /\ fs["orig"] = repo0
    /\ (index # {}) => repo_path = "tmp"
    /\ (index # {} /\ pc # "exit") => index \subseteq fs["tmp"].blobs
    /\ (msg = "not a valid repository") =>
          (~temp_made /\ ~fs["tmp"].exists /\ pc = "exit")
    /\ ~(repo0.exists /\ repo0.is_repo) =>
          (~temp_made /\ ~fs["tmp"].exists)

\* Two mark files have been staged in the temporary copy of a repository.
C4_Witness ==
    /\ Cardinality(index) = 2
    /\ fs["tmp"].blobs = index
    /\ repo0.is_repo

(* ---------------------------------------------------------------------- *)
(* C5                                                                      *)
(* ---------------------------------------------------------------------- *)

\* The filtered entries of the original's status set.
C5_Filtered == filter_statuses_by_path(repo0.entries, auto_files)

\* What the input alone makes of a run none of whose library calls fails.
C5_InputFails ==
    \/ ~(repo0.exists /\ repo0.is_repo)
    \/ /\ ~HasStagedChanges(repo0.entries)
       /\ \/ \E e \in Range(C5_Filtered) : e.path_bytes = NonUtf8
          \/ \E e \in Range(C5_Filtered) : e.status # {"WT_MODIFIED"}

\* C5: a finished run has result Err exactly when --repo is invalid or a
\* Failed transition was taken (a library call failed, a filtered entry has
\* no path string, a mark file has an unexpected status), and Ok exactly when
\* it ended in the dirty-index abort, the no-mark-files abort (nothing
\* staged) or Staged; it ends in exactly one of these.
C5_ExitStatus ==
    (pc = "exit") =>
        /\ result \in {"Ok", "Err"}
        /\ (result = "Err") <=> (msg \in LibraryFailures \cup InputFailures)
        /\ (result = "Ok") <=>
              (msg \in {AbortedDirtyIndex, AbortedNoMarkFiles, Staged})
        /\ (msg \notin LibraryFailures) =>
              ((result = "Err") <=> C5_InputFails)
        /\ (msg = "not a valid repository") <=> ~(repo0.exists /\ repo0.is_repo)
        /\ (msg = AbortedDirtyIndex) => HasStagedChanges(repo0.entries)
        /\ (msg = AbortedNoMarkFiles) => (C5_Filtered = <<>> /\ index = {})
        /\ (msg = Staged) =>
              /\ C5_Filtered # <<>>
              /\ index = PathsOf(C5_Filtered)
        /\ (msg = "Could not convert all mark files to a path") =>
              (\E e \in Range(C5_Filtered) : e.path_bytes = NonUtf8)
        /\ (msg = "unexpected status") =>
              (\E e \in Range(C5_Filtered) : e.status # {"WT_MODIFIED"})

\* A run has ended in the no-mark-files abort with changes present.
C5_Witness ==
    /\ pc = "exit"
    /\ msg = AbortedNoMarkFiles
    /\ result = "Ok"
    /\ Len(statuses) = 2
    /\ auto_files # <<>>

(* ---------------------------------------------------------------------- *)
(* C6, C7                                                                  *)
(* ---------------------------------------------------------------------- *)

\* C6: filter_statuses_by_path(S, A) is exactly the entries of S whose path
\* string equals a member of A, in the order of S, none more often than in S.
C6_FilterIsExactMembers ==
    (pc = "convert") =>
        mark_file_statuses = AllowListed(statuses, auto_files)

\* C7: an entry with no resolvable path is never in the result of
\* filter_statuses_by_path, whatever the allow-list holds ("" included).
C7_NoPathNeverMatched ==
    (pc = "convert") =>
        \A k \in 1..Len(mark_file_statuses) :
            EntryPath(mark_file_statuses[k]) # None

(* ---------------------------------------------------------------------- *)
(* C8                                                                      *)
(* ---------------------------------------------------------------------- *)

\* C8: when the first run ended Staged, the second run on the same working
\* copy (none of whose library calls fails) ends in the dirty-index or the
\* no-mark-files abort, with result Ok and nothing staged.
C8_SecondRunAborts ==
    (run = 2 /\ pc = "exit" /\ log[1].msg = Staged
       /\ msg \notin LibraryFailures) =>
        /\ msg \in {AbortedDirtyIndex, AbortedNoMarkFiles}
        /\ result = "Ok"
        /\ index = {}

(* ---------------------------------------------------------------------- *)
(* C9                                                                      *)
(* ---------------------------------------------------------------------- *)

\* C9: every run terminates, and once it has, a temporary directory it
\* created no longer exists, whatever the outcome.
C9_TempDirRemoved ==
    /\ <>(pc = "exit")
    /\ [](pc = "exit" => ~fs["tmp"].exists)

\* A run that created a temporary directory and failed in the stager has
\* ended, and the directory is gone.
C9_Witness ==
    /\ pc = "exit"
    /\ temp_made
    /\ result = "Err"
    /\ msg = "unexpected status"
    /\ index # {}
    /\ ~fs["tmp"].exists

(* ---------------------------------------------------------------------- *)
(* C10                                                                     *)
(* ---------------------------------------------------------------------- *)

\* The premise of C10, once the entries are filtered and converted: the index
\* is clean and some filtered entry is not exactly WT_MODIFIED.
C10_Premise ==
    /\ Ended
    /\ Fetched
    /\ ~HasStagedChanges(statuses)
    /\ msg # "Could not convert all mark files to a path"
    /\ \E k \in 1..Len(mark_file_statuses) :
          mark_file_statuses[k].status # {"WT_MODIFIED"}

\* The position of the first filtered entry that is not exactly WT_MODIFIED.
C10_FirstBad ==
    CHOOSE k \in 1..Len(mark_file_statuses) :
        /\ mark_file_statuses[k].status # {"WT_MODIFIED"}
        /\ \A j \in 1..(k - 1) : mark_file_statuses[j].status = {"WT_MODIFIED"}

\* C10 as stated: the run ends Failed and the staged paths are exactly the
\* filtered entries before the first one of an unexpected status.
C10_AsStated ==
    C10_Premise =>
        /\ result = "Err"
        /\ index = StagedPrefix(C10_FirstBad - 1)

\* C10, amended: the run ends Failed; if every add_path before the first
\* entry of an unexpected status succeeded, the staged paths are exactly the
\* filtered entries before that entry; if an add_path failed, they are the
\* entries before the one whose add_path failed.  Nothing at or after the
\* entry of an unexpected status is staged, and nothing is rolled back.
C10_PartialStaging ==
    C10_Premise =>
        /\ result = "Err"
        /\ msg \in {"unexpected status", "Could not add to the index"}
        /\ (msg = "unexpected status") =>
              index = StagedPrefix(C10_FirstBad - 1)
        /\ (msg = "Could not add to the index") =>
              (\E j \in 1..(C10_FirstBad - 1) : index = StagedPrefix(j - 1))
        /\ fs["tmp"].blobs = index \/ pc = "exit"

\* The run failed on the second mark file after staging the first.
C10_Witness ==
    /\ pc = "return"
    /\ msg = "unexpected status"
    /\ Len(mark_file_statuses) = 2
    /\ index = {mark_file_statuses[1].path}
    /\ fs["tmp"].blobs = index

====
